---- MODULE Spec2Model ----
(***************************************************************************)
(* Blooby: a password-encrypted single-file document store.                *)
(*                                                                         *)
(* Four state machines are developed here:                                 *)
(*   SpecCodec  the chunked AES-256-GCM codec of features/encryption       *)
(*              (encryptData, encryptDataChunked, encryptAuto, the wire    *)
(*              format, decryptAuto) with an adversary who rewrites the    *)
(*              stored bytes;                                              *)
(*   Spec       the document engine of DatabaseInstance (createCollection, *)
(*              deleteCollection, insert, insertMany, find, update,        *)
(*              updateById, delete, deleteById, setAutoSave, save) with    *)
(*              matchesQuery and applyUpdate;                              *)
(*   SpecManager the Blooby manager over one database file              *)
(*              (createDatabase, openDatabase, closeDatabase,              *)
(*              deleteDatabase) with a caller that keeps the               *)
(*              DatabaseInstance it was given;                             *)
(*   SpecQuery  insert, update, find and findById over documents of any    *)
(*              shape and id, with sortDocuments.                          *)
(*                                                                         *)
(* Buffers are sequences of small "bytes"; a fixed-width integer field of  *)
(* the wire format occupies one cell of the stored sequence.  AES-GCM is   *)
(* idealised: the cipher is a keyed stream cipher and the authentication   *)
(* tag is the term (key, iv, ciphertext), so that a tag verifies exactly   *)
(* when key, iv and ciphertext are the ones it was computed from.          *)
(***************************************************************************)
EXTENDS Integers, Sequences, FiniteSets, TLC

\* ------------------------------------------------------------------------
\* Bounds of the model
\* ------------------------------------------------------------------------
MaxLen == 3          \* longest plaintext buffer

\* ------------------------------------------------------------------------
\* Host-language values
\* ------------------------------------------------------------------------
\* the JavaScript value undefined (no number of the model is negative)
undefined == -1

Truthy(v) == v # undefined /\ v # 0

Min(a, b) == IF a < b THEN a ELSE b

\* one bit per modelled byte
Byte == 0..1
Xor(a, b) == (a + b) % 2

RECURSIVE Concat(_)
\* Buffer.concat(list)
Concat(list) == IF list = <<>> THEN <<>> ELSE Head(list) \o Concat(Tail(list))

\* buffer.slice(start, end), offsets 0-based, silently clamped to the buffer
Slice(buffer, start, end) ==
    SubSeq(buffer, start + 1, Min(end, Len(buffer)))

\* ------------------------------------------------------------------------
\* Key derivation and the AEAD cipher
\* ------------------------------------------------------------------------
ALGORITHM == "aes-256-gcm"

\* sha256 of the passphrase: a one-way, collision-free term
normalizeMasterKey(masterKey) == [sha256 |-> masterKey]

\* a slip: the key is derived from the salt and context alone
deriveKey_saltOnly(masterKey, salt, context) ==
    [pbkdf2 |-> normalizeMasterKey(""), salt |-> salt, ctx |-> context]

\* pbkdf2 over the normalized key, salted with salt || utf8(context)
deriveKey(masterKey, salt, context) ==
    [pbkdf2 |-> normalizeMasterKey(masterKey), salt |-> salt, ctx |-> context]

\* the key stream of the cipher at position i (1-based) under (key, iv)
KeyStream(key, iv, i) ==
    (Len(key.pbkdf2.sha256) + key.salt[1] + Len(key.ctx) + iv[1] + i) % 2

\* cipher.update(data) ++ cipher.final(): counter-mode encryption
CipherUpdate(key, iv, data) ==
    [i \in 1..Len(data) |-> Xor(data[i], KeyStream(key, iv, i))]

\* cipher.getAuthTag(): one cell holding the tag term; flip = 0 for a
\* tag as computed, any other value of flip is a tag with bits changed
GetAuthTag(key, iv, encrypted) ==
    << [key |-> key, iv |-> iv, ct |-> encrypted, flip |-> 0] >>

\* a chunk without authTag (authTag undefined): no tag cells
NoAuthTag == <<>>

\* a slip: an unauthenticated mode, final() never checks the tag
DecipherFinal_unchecked(key, iv, data, authTag) ==
    [ok |-> TRUE, plain |-> CipherUpdate(key, iv, data)]

\* decipher.update(data) ++ decipher.final() after setAuthTag(authTag):
\* final() throws unless a tag was set and verifies
DecipherFinal(key, iv, data, authTag) ==
    IF authTag # NoAuthTag /\ authTag = GetAuthTag(key, iv, data)
    THEN [ok |-> TRUE, plain |-> CipherUpdate(key, iv, data)]
    ELSE [ok |-> FALSE, plain |-> <<>>]

\* ------------------------------------------------------------------------
\* Results of a call: a returned buffer or a thrown error
\* ------------------------------------------------------------------------
Returned(buf) ==
    [status |-> "returned", value |-> buf, error |-> "", chunk |-> undefined]
Thrown(msg, idx) ==
    [status |-> "thrown", value |-> <<>>, error |-> msg, chunk |-> idx]

\* ------------------------------------------------------------------------
\* Chunked and simple encryption
\* ------------------------------------------------------------------------
\* a slip: the division rounds down, the last partial chunk is lost
CeilDiv_floor(len, chunkSize) == len \div chunkSize

\* Math.ceil(len / chunkSize)
CeilDiv(len, chunkSize) == (len + chunkSize - 1) \div chunkSize

\* a slip: the chunk index is left out of the context
ChunkContext_noIndex(i) == "chunk_"

\* `chunk_${i}`
ChunkContext(i) == "chunk_" \o ToString(i)

\* one iteration of the loop of encryptDataChunked (i is 0-based)
EncryptChunk(data, masterKey, chunkSize, salt, iv, i) ==
    LET start == i * chunkSize
        end == Min(start + chunkSize, Len(data))
        chunkData == Slice(data, start, end)
        derivedKey == deriveKey(masterKey, salt, ChunkContext(i))
        encrypted == CipherUpdate(derivedKey, iv, chunkData)
    IN  [index |-> i, iv |-> iv, data |-> encrypted,
         authTag |-> GetAuthTag(derivedKey, iv, encrypted)]

\* salt and ivs are the values crypto.randomBytes returned
encryptDataChunked(data, masterKey, chunkSize, salt, ivs) ==
    LET totalChunks == CeilDiv(Len(data), chunkSize)
    IN  [metadata |-> [salt |-> salt, algorithm |-> ALGORITHM,
                       chunkCount |-> totalChunks, chunkSize |-> chunkSize],
         chunks |-> [k \in 1..totalChunks |->
                       EncryptChunk(data, masterKey, chunkSize, salt, ivs[k], k - 1)]]

encryptData(data, masterKey, salt, iv) ==
    LET derivedKey == deriveKey(masterKey, salt, "")
        encrypted == CipherUpdate(derivedKey, iv, data)
    IN  [metadata |-> [salt |-> salt, algorithm |-> ALGORITHM],
         chunks |-> << [index |-> 0, iv |-> iv, data |-> encrypted,
                        authTag |-> GetAuthTag(derivedKey, iv, encrypted)] >>]

\* property access: a missing key reads as undefined
Get(obj, k) == IF k \in DOMAIN obj THEN obj[k] ELSE undefined

\* ------------------------------------------------------------------------
\* Decryption
\* ------------------------------------------------------------------------
RECURSIVE InsertByIndex(_, _)
InsertByIndex(sorted, c) ==
    IF sorted = <<>> THEN <<c>>
    ELSE IF c.index < Head(sorted).index THEN <<c>> \o sorted
    ELSE <<Head(sorted)>> \o InsertByIndex(Tail(sorted), c)

\* a slip: the chunks are taken in stored order
SortByIndex_stored(chunks) == chunks

RECURSIVE SortByIndex(_)
\* chunks.sort((a, b) => a.index - b.index): stable, ascending by index
SortByIndex(chunks) ==
    IF chunks = <<>> THEN <<>>
    ELSE InsertByIndex(SortByIndex(SubSeq(chunks, 1, Len(chunks) - 1)),
                       chunks[Len(chunks)])

RECURSIVE DecryptLoop_partial(_, _, _, _)
\* a slip: the chunks decrypted so far are returned when one fails
DecryptLoop_partial(chunks, metadata, masterKey, decryptedChunks) ==
    IF chunks = <<>> THEN Returned(Concat(decryptedChunks))
    ELSE LET chunk == Head(chunks)
             derivedKey == deriveKey(masterKey, metadata.salt, ChunkContext(chunk.index))
             d == DecipherFinal(derivedKey, chunk.iv, chunk.data, chunk.authTag)
         IN  IF d.ok
             THEN DecryptLoop_partial(Tail(chunks), metadata, masterKey,
                                      Append(decryptedChunks, d.plain))
             ELSE Returned(Concat(decryptedChunks))

RECURSIVE DecryptLoop(_, _, _, _)
\* the for-loop of decryptDataChunked over the sorted chunks
DecryptLoop(chunks, metadata, masterKey, decryptedChunks) ==
    IF chunks = <<>> THEN Returned(Concat(decryptedChunks))
    ELSE LET chunk == Head(chunks)
             derivedKey == deriveKey(masterKey, metadata.salt, ChunkContext(chunk.index))
             d == DecipherFinal(derivedKey, chunk.iv, chunk.data, chunk.authTag)
         IN  IF d.ok
             THEN DecryptLoop(Tail(chunks), metadata, masterKey,
                              Append(decryptedChunks, d.plain))
             ELSE Thrown("Decryption failed for chunk", chunk.index)

decryptDataChunked(encryptedData, masterKey) ==
    DecryptLoop(SortByIndex(encryptedData.chunks), encryptedData.metadata,
                masterKey, <<>>)

decryptData(encryptedData, masterKey) ==
    IF encryptedData.chunks = <<>> THEN Thrown("TypeError", undefined)
    ELSE LET chunk == encryptedData.chunks[1]
             derivedKey == deriveKey(masterKey, encryptedData.metadata.salt, "")
             d == DecipherFinal(derivedKey, chunk.iv, chunk.data, chunk.authTag)
         IN  IF d.ok THEN Returned(d.plain)
             ELSE Thrown("Decryption failed", undefined)

\* ------------------------------------------------------------------------
\* Wire format
\* ------------------------------------------------------------------------
\* base64 of a one-byte buffer
Base64Table == << "AA==", "AQ==", "Ag==", "Aw==" >>

\* salt.toString('base64')
ToBase64(buf) == Base64Table[buf[1] + 1]

\* Buffer.from(text, 'base64')
FromBase64(text) == << (CHOOSE k \in 1..Len(Base64Table) : Base64Table[k] = text) - 1 >>

\* JSON.stringify of the metadata object: keys whose value is undefined
\* are left out
JsonStringify(obj) ==
    LET keys == {"salt", "algorithm"}
                \cup {k \in {"chunkCount", "chunkSize"} : obj[k] # undefined}
    IN  [k \in keys |-> obj[k]]

\* JSON.parse(text)
JsonParse(text) == text

\* the bytes written for one chunk:
\* [index][iv_length][iv][authTag_length][authTag][data_length][data]
SerializeChunk(chunk) ==
    << chunk.index, Len(chunk.iv) >> \o chunk.iv
    \o (IF chunk.authTag # NoAuthTag
        THEN << Len(chunk.authTag) >> \o chunk.authTag
        ELSE << 0 >>)
    \o << Len(chunk.data) >> \o chunk.data

serializeEncryptedData(encryptedData) ==
    LET metadataJson == JsonStringify(
            [salt |-> ToBase64(encryptedData.metadata.salt),
             algorithm |-> encryptedData.metadata.algorithm,
             chunkCount |-> Get(encryptedData.metadata, "chunkCount"),
             chunkSize |-> Get(encryptedData.metadata, "chunkSize")])
        metadataBuffer == << metadataJson >>
    IN  << Len(metadataBuffer) >> \o metadataBuffer
        \o Concat([k \in 1..Len(encryptedData.chunks) |->
                     SerializeChunk(encryptedData.chunks[k])])

\* buffer.readUInt32BE(offset) / readUInt16BE(offset) is in range
InRange(buffer, offset) == offset + 1 <= Len(buffer)

RECURSIVE ReadChunks(_, _, _, _, _)
\* the for-loop of deserializeEncryptedData; a read past the end throws
ReadChunks(buffer, offset, i, chunkCount, chunks) ==
    IF ~(i < chunkCount) THEN [ok |-> TRUE, chunks |-> chunks]
    ELSE IF ~InRange(buffer, offset) \/ ~InRange(buffer, offset + 1)
    THEN [ok |-> FALSE, chunks |-> <<>>]
    ELSE LET index == buffer[offset + 1]
             ivLength == buffer[offset + 2]
             iv == Slice(buffer, offset + 2, offset + 2 + ivLength)
             o2 == offset + 2 + ivLength
         IN  IF ~InRange(buffer, o2) THEN [ok |-> FALSE, chunks |-> <<>>]
             ELSE LET authTagLength == buffer[o2 + 1]
                      authTag == IF authTagLength > 0
                                 THEN Slice(buffer, o2 + 1, o2 + 1 + authTagLength)
                                 ELSE NoAuthTag
                      o3 == o2 + 1 + authTagLength
                  IN  IF ~InRange(buffer, o3) THEN [ok |-> FALSE, chunks |-> <<>>]
                      ELSE LET dataLength == buffer[o3 + 1]
                               data == Slice(buffer, o3 + 1, o3 + 1 + dataLength)
                               o4 == o3 + 1 + dataLength
                           IN  ReadChunks(buffer, o4, i + 1, chunkCount,
                                   Append(chunks, [index |-> index, iv |-> iv,
                                                   data |-> data, authTag |-> authTag]))

deserializeEncryptedData(buffer) ==
    LET metadataLength == buffer[1]
        metadataObj == JsonParse(Slice(buffer, 1, 1 + metadataLength)[1])
        metadata == [salt |-> FromBase64(metadataObj.salt),
                     algorithm |-> metadataObj.algorithm,
                     chunkCount |-> Get(metadataObj, "chunkCount"),
                     chunkSize |-> Get(metadataObj, "chunkSize")]
        chunkCount == IF Truthy(metadata.chunkCount) THEN metadata.chunkCount ELSE 1
        r == ReadChunks(buffer, 1 + metadataLength, 0, chunkCount, <<>>)
    IN  [ok |-> r.ok, metadata |-> metadata, chunks |-> r.chunks]

\* ------------------------------------------------------------------------
\* Auto-select entry points
\* ------------------------------------------------------------------------
\* a slip: the threshold comparison is strict
encryptAuto_strict(buf, key, size, salt, ivs) ==
    IF Len(buf) < size
    THEN serializeEncryptedData(encryptData(buf, key, salt, ivs[1]))
    ELSE serializeEncryptedData(encryptDataChunked(buf, key, size, salt, ivs))

\* salt and ivs are the values crypto.randomBytes returned
encryptAuto(data, masterKey, chunkSize, salt, ivs) ==
    IF Len(data) <= chunkSize
    THEN serializeEncryptedData(encryptData(data, masterKey, salt, ivs[1]))
    ELSE serializeEncryptedData(encryptDataChunked(data, masterKey, chunkSize, salt, ivs))

decryptAuto(encryptedBuffer, masterKey) ==
    LET encryptedData == deserializeEncryptedData(encryptedBuffer)
    IN  IF ~encryptedData.ok THEN Thrown("RangeError", undefined)
        ELSE IF Truthy(encryptedData.metadata.chunkCount)
                /\ encryptedData.metadata.chunkCount > 1
        THEN decryptDataChunked(encryptedData, masterKey)
        ELSE decryptData(encryptedData, masterKey)

\* ------------------------------------------------------------------------
\* The codec state machine: encrypt, store, (tamper), decrypt
\* ------------------------------------------------------------------------
VARIABLES
    data,        \* plaintext handed to encryptAuto
    masterKey,   \* passphrase handed to encryptAuto
    chunkSize,   \* chunkSize handed to encryptAuto
    stored,      \* the serialized bytes as they are on disk
    tamper,      \* what was done to the stored bytes after encryption
    decryptKey,  \* passphrase handed to decryptAuto
    result,      \* what decryptAuto returned or threw
    pc,          \* "input", "stored", "tampered", "decrypted", or
                 \* "chunked" / "simple" after a direct call to encrypt,
                 \* "permuted", "decryptedChunked", "decryptedSimple",
                 \* "reopened" after what follows it
    container    \* what encryptDataChunked / encryptData returned

codecVars == << data, masterKey, chunkSize, stored, tamper, decryptKey, result,
                pc, container >>

\* the state of the document engine (an open database and its collection)
VARIABLES
    documents,      \* collection.documents: entries in Object.values order
    documentCount,  \* collection._meta.documentCount
    inserted,       \* number of ids handed out so far
    ops,            \* number of mutating calls made so far
    last,           \* the last call: its operation, arguments and result
    created,        \* the collection is a key of database.collections
    autoSaveEnabled,\* DatabaseInstance.autoSaveEnabled
    file,           \* the database as last written to the database file
    registered,     \* Blooby.databases has the instance under fileName
    encryptionKey   \* the key given to createDatabase: this.encryptionKey

dbVars == << documents, documentCount, inserted, ops, last,
             created, autoSaveEnabled, file, registered, encryptionKey >>

vars == << codecVars, dbVars >>

\* no database is open while the codec is exercised
DbIdle ==
    /\ documents = <<>>
    /\ documentCount = 0
    /\ inserted = 0
    /\ ops = 0
    /\ last = [op |-> "open"]
    /\ created = FALSE
    /\ autoSaveEnabled = TRUE
    /\ file = [created |-> FALSE, documents |-> <<>>, documentCount |-> 0]
    /\ registered = FALSE
    /\ encryptionKey = ""

RECURSIVE SeqsUpTo(_, _)
SeqsUpTo(S, n) ==
    IF n = 0 THEN { <<>> }
    ELSE LET shorter == SeqsUpTo(S, n - 1)
         IN  shorter \cup { Append(q, b) : q \in {r \in shorter : Len(r) = n - 1}, b \in S }

Buffers == SeqsUpTo(Byte, MaxLen)
Passphrases == { "pw", "pass" }

\* two passphrases of 33 characters
ValidKey == "correct-horse-battery-staple-0001"
OtherValidKey == "correct-horse-battery-staple-0002"
ChunkSizes == 1..MaxLen

\* crypto.randomBytes(n): one modelled byte
RandomBytes == { <<0>>, <<1>> }

NoTamper == [kind |-> "none", chunk |-> undefined]
NoResult == [status |-> "none", value |-> <<>>, error |-> "", chunk |-> undefined]

\* no direct call of encryptDataChunked / encryptData was made
NoContainer == [metadata |-> [algorithm |-> ""], chunks |-> <<>>]

CodecInit ==
    /\ DbIdle
    /\ data \in Buffers
    /\ masterKey \in Passphrases
    /\ chunkSize \in ChunkSizes
    /\ stored = <<>>
    /\ tamper = NoTamper
    /\ decryptKey = ""
    /\ result = NoResult
    /\ pc = "input"
    /\ container = NoContainer

\* number of random IVs encryptAuto draws
IvCount(buf, size) == IF Len(buf) <= size THEN 1 ELSE CeilDiv(Len(buf), size)

\* save(): encryptAuto(serialized, key, chunkSize) written to the file
EncryptAuto ==
    /\ pc = "input"
    /\ \E salt \in RandomBytes, ivs \in [1..IvCount(data, chunkSize) -> RandomBytes] :
          stored' = encryptAuto(data, masterKey, chunkSize, salt, ivs)
    /\ pc' = "stored"
    /\ UNCHANGED << data, masterKey, chunkSize, tamper, decryptKey, result >>
    /\ UNCHANGED << container, dbVars >>

\* the chunk records of the stored bytes, and the bytes with other records
Header(buffer) == SubSeq(buffer, 1, 1 + buffer[1])
Records(buffer) == deserializeEncryptedData(buffer).chunks
WithRecords(buffer, chunks) ==
    Header(buffer) \o Concat([k \in 1..Len(chunks) |-> SerializeChunk(chunks[k])])
WithChunkCount(buffer, n) ==
    [buffer EXCEPT ![2] = [k \in DOMAIN buffer[2] \cup {"chunkCount"} |->
                              IF k = "chunkCount" THEN n ELSE buffer[2][k]]]

\* one bit of the ciphertext of chunk record c is flipped on disk
FlipCiphertextBit ==
    /\ pc = "stored"
    /\ \E c \in 1..Len(Records(stored)) :
         \E j \in 1..Len(Records(stored)[c].data) :
            /\ stored' = WithRecords(stored,
                   [Records(stored) EXCEPT ![c].data[j] = Xor(@, 1)])
            /\ tamper' = [kind |-> "ciphertext", chunk |-> c]
    /\ pc' = "tampered"
    /\ UNCHANGED << data, masterKey, chunkSize, decryptKey, result >>
    /\ UNCHANGED << container, dbVars >>

\* one bit of the authTag of chunk record c is flipped on disk
FlipAuthTagBit ==
    /\ pc = "stored"
    /\ \E c \in 1..Len(Records(stored)) :
            /\ stored' = WithRecords(stored,
                   [Records(stored) EXCEPT ![c].authTag[1].flip = Xor(@, 1)])
            /\ tamper' = [kind |-> "authTag", chunk |-> c]
    /\ pc' = "tampered"
    /\ UNCHANGED << data, masterKey, chunkSize, decryptKey, result >>
    /\ UNCHANGED << container, dbVars >>

Orderings(n) ==
    { p \in [1..n -> 1..n] : \A a, b \in 1..n : p[a] = p[b] => a = b }

\* the same chunk records are written in another order
ReorderChunks ==
    /\ pc = "stored"
    /\ Len(Records(stored)) >= 2
    /\ \E p \in Orderings(Len(Records(stored))) :
            /\ \E k \in DOMAIN p : p[k] # k
            /\ stored' = WithRecords(stored,
                   [k \in 1..Len(Records(stored)) |-> Records(stored)[p[k]]])
    /\ tamper' = [kind |-> "reorder", chunk |-> undefined]
    /\ pc' = "tampered"
    /\ UNCHANGED << data, masterKey, chunkSize, decryptKey, result >>
    /\ UNCHANGED << container, dbVars >>

\* metadata.chunkCount is rewritten to another positive value
SetChunkCount ==
    /\ pc = "stored"
    /\ Len(Records(stored)) >= 2
    /\ \E n \in 1..(MaxLen + 1) :
            /\ n # Len(Records(stored))
            /\ stored' = WithChunkCount(stored, n)
    /\ tamper' = [kind |-> "chunkCount", chunk |-> undefined]
    /\ pc' = "tampered"
    /\ UNCHANGED << data, masterKey, chunkSize, decryptKey, result >>
    /\ UNCHANGED << container, dbVars >>

\* the last chunk record is cut off the file
DropTrailingChunk ==
    /\ pc = "stored"
    /\ Len(Records(stored)) >= 2
    /\ stored' = WithRecords(stored,
           SubSeq(Records(stored), 1, Len(Records(stored)) - 1))
    /\ tamper' = [kind |-> "drop", chunk |-> Len(Records(stored))]
    /\ pc' = "tampered"
    /\ UNCHANGED << data, masterKey, chunkSize, decryptKey, result >>
    /\ UNCHANGED << container, dbVars >>

\* chunk record c is overwritten by a copy of chunk record d
ReplaceChunk ==
    /\ pc = "stored"
    /\ Len(Records(stored)) >= 2
    /\ \E c, d \in 1..Len(Records(stored)) :
            /\ c # d
            /\ stored' = WithRecords(stored,
                   [Records(stored) EXCEPT ![c] = Records(stored)[d]])
            /\ tamper' = [kind |-> "replace", chunk |-> c]
    /\ pc' = "tampered"
    /\ UNCHANGED << data, masterKey, chunkSize, decryptKey, result >>
    /\ UNCHANGED << container, dbVars >>

\* loadDatabase(): decryptAuto(file bytes, key)
DecryptAuto ==
    /\ pc \in { "stored", "tampered" }
    /\ \E key \in Passphrases :
            /\ decryptKey' = key
            /\ result' = decryptAuto(stored, key)
    /\ pc' = "decrypted"
    /\ UNCHANGED << data, masterKey, chunkSize, stored, tamper >>
    /\ UNCHANGED << container, dbVars >>

\* encryptDataChunked(data, masterKey, chunkSize) called directly
EncryptDataChunked ==
    /\ pc = "input"
    /\ \E salt \in RandomBytes,
          ivs \in [1..CeilDiv(Len(data), chunkSize) -> RandomBytes] :
          container' = encryptDataChunked(data, masterKey, chunkSize, salt, ivs)
    /\ pc' = "chunked"
    /\ UNCHANGED << data, masterKey, chunkSize, stored, tamper, decryptKey, result >>
    /\ UNCHANGED dbVars

\* encryptData(data, masterKey) called directly
EncryptData ==
    /\ pc = "input"
    /\ \E salt \in RandomBytes, iv \in RandomBytes :
          container' = encryptData(data, masterKey, salt, iv)
    /\ pc' = "simple"
    /\ UNCHANGED << data, masterKey, chunkSize, stored, tamper, decryptKey, result >>
    /\ UNCHANGED dbVars

\* the caller holds the container with its chunks in another order, as
\* deserializeEncryptedData returns it for a file whose records were
\* written in that order
PermuteContainer ==
    /\ pc = "chunked"
    /\ Len(container.chunks) >= 2
    /\ \E p \in Orderings(Len(container.chunks)) :
            /\ \E k \in DOMAIN p : p[k] # k
            /\ container' = [container EXCEPT
                   !.chunks = [k \in 1..Len(container.chunks) |-> container.chunks[p[k]]]]
    /\ pc' = "permuted"
    /\ UNCHANGED << data, masterKey, chunkSize, stored, tamper, decryptKey, result >>
    /\ UNCHANGED dbVars

\* decryptDataChunked(container, key) called directly: chunks.sort(...)
\* sorts the chunks array of the container it was given
DecryptDataChunked ==
    /\ pc \in { "chunked", "permuted" }
    /\ \E key \in Passphrases :
            /\ decryptKey' = key
            /\ result' = decryptDataChunked(container, key)
    /\ container' = [container EXCEPT !.chunks = SortByIndex(@)]
    /\ pc' = "decryptedChunked"
    /\ UNCHANGED << data, masterKey, chunkSize, stored, tamper >>
    /\ UNCHANGED dbVars

\* decryptData(container, key) called directly
DecryptData ==
    /\ pc = "simple"
    /\ \E key \in Passphrases :
            /\ decryptKey' = key
            /\ result' = decryptData(container, key)
    /\ pc' = "decryptedSimple"
    /\ UNCHANGED << data, masterKey, chunkSize, stored, tamper, container >>
    /\ UNCHANGED dbVars

\* decryptAuto(serializeEncryptedData(container), key) on the container a
\* direct call returned
SerializeAndDecryptAuto ==
    /\ pc \in { "chunked", "simple" }
    /\ stored' = serializeEncryptedData(container)
    /\ \E key \in Passphrases :
            /\ decryptKey' = key
            /\ result' = decryptAuto(stored', key)
    /\ pc' = "reopened"
    /\ UNCHANGED << data, masterKey, chunkSize, tamper, container >>
    /\ UNCHANGED dbVars

CodecNext ==
    \/ EncryptAuto
    \/ FlipCiphertextBit
    \/ FlipAuthTagBit
    \/ ReorderChunks
    \/ SetChunkCount
    \/ DropTrailingChunk
    \/ ReplaceChunk
    \/ DecryptAuto
    \/ EncryptDataChunked
    \/ EncryptData
    \/ PermuteContainer
    \/ DecryptDataChunked
    \/ DecryptData
    \/ SerializeAndDecryptAuto

SpecCodec == CodecInit /\ [][CodecNext]_vars

\* ------------------------------------------------------------------------
\* Properties of the codec
\* ------------------------------------------------------------------------
Decrypted == pc = "decrypted"
RightKey == decryptKey = masterKey
IntegrityErrors == { "Decryption failed", "Decryption failed for chunk" }
IsIntegrityError == result.status = "thrown" /\ result.error \in IntegrityErrors

\* the container decryptAuto sees in the stored bytes
StoredContainer == deserializeEncryptedData(stored)
StoredIsChunked ==
    /\ StoredContainer.ok
    /\ Truthy(StoredContainer.metadata.chunkCount)
    /\ StoredContainer.metadata.chunkCount > 1

\* C1: decryptAuto(encryptAuto(D, P, chunkSize), P) returns exactly D, for
\* every buffer (the empty one included) and every chunkSize >= 1.
C1_RoundTrip ==
    (Decrypted /\ tamper.kind = "none" /\ RightKey) => result = Returned(data)

C1_Witness ==
    /\ Decrypted /\ tamper.kind = "none" /\ RightKey
    /\ Len(data) = 3 /\ chunkSize = 2
    /\ result.status = "returned" /\ result.value = data

\* C2: after a bit of any chunk's stored ciphertext or authTag is changed,
\* decryptAuto with the right passphrase fails with an integrity error and
\* returns no plaintext.
C2_TamperDetected ==
    (Decrypted /\ tamper.kind \in { "ciphertext", "authTag" } /\ RightKey)
        => (IsIntegrityError /\ result.value = <<>>)

C2_Witness ==
    /\ Decrypted /\ RightKey
    /\ tamper.kind = "ciphertext" /\ tamper.chunk = 2
    /\ IsIntegrityError

\* C3: decryptAuto with a passphrase other than the one used to encrypt
\* fails with an integrity error, raised on the first chunk it decrypts
\* (index 0 of a chunked container), and returns no buffer.
C3_WrongKey ==
    (Decrypted /\ tamper.kind = "none" /\ ~RightKey)
        => /\ IsIntegrityError
           /\ result.value = <<>>
           /\ StoredIsChunked => result.chunk = 0

C3_Witness ==
    /\ Decrypted /\ tamper.kind = "none" /\ ~RightKey
    /\ StoredIsChunked
    /\ IsIntegrityError /\ result.chunk = 0

\* chunk record c of the stored container does not verify under decryptKey
ChunkFails(c) ==
    LET chunk == StoredContainer.chunks[c]
        key == deriveKey(decryptKey, StoredContainer.metadata.salt,
                         ChunkContext(chunk.index))
    IN  chunk.authTag # GetAuthTag(key, chunk.iv, chunk.data)

\* C4: decrypting a chunked container in which the integrity check of any
\* one chunk fails, at any position, throws and returns no bytes at all.
C4_FailFast ==
    (/\ Decrypted
     /\ StoredIsChunked
     /\ \E c \in 1..Len(StoredContainer.chunks) : ChunkFails(c))
        => (result.status = "thrown" /\ result.value = <<>>)

C4_Witness ==
    /\ Decrypted /\ RightKey /\ StoredIsChunked
    /\ Len(StoredContainer.chunks) = 3
    /\ tamper.kind = "ciphertext" /\ tamper.chunk = 3
    /\ ~ChunkFails(1) /\ ~ChunkFails(2) /\ ChunkFails(3)
    /\ result.status = "thrown" /\ result.value = <<>>

\* C5: after a structural change of a blob of N >= 2 chunks (chunkCount
\* lowered or raised, trailing chunk record dropped, a chunk record replaced
\* by a copy of another), decryptAuto with the right passphrase fails with
\* an error and returns no buffer.
C5_WholeContainerIntegrity ==
    (Decrypted /\ tamper.kind \in { "chunkCount", "drop", "replace" } /\ RightKey)
        => result.status = "thrown"

\* C6: writing the chunk records of a blob of N >= 2 chunks in any other
\* order still decrypts to the original plaintext.
C6_ReorderResilient ==
    (Decrypted /\ tamper.kind = "reorder" /\ RightKey) => result = Returned(data)

C6_Witness ==
    /\ Decrypted /\ tamper.kind = "reorder" /\ RightKey
    /\ Len(StoredContainer.chunks) = 3
    /\ StoredContainer.chunks[1].index = 2
    /\ StoredContainer.chunks[3].index = 0
    /\ result.status = "returned" /\ result.value = data

\* C7: encryptAuto encrypts simple (one chunk, index 0, no chunkCount or
\* chunkSize in the metadata, key context "") whenever len(data) <= chunkSize,
\* and chunked only when len(data) > chunkSize.
C7_Threshold ==
    pc = "stored" =>
        LET meta == JsonParse(stored[2])
            chunks == StoredContainer.chunks
        IN  /\ Len(data) <= chunkSize =>
                /\ DOMAIN meta = { "salt", "algorithm" }
                /\ Len(chunks) = 1
                /\ chunks[1].index = 0
                /\ chunks[1].authTag[1].key.ctx = ""
            /\ Len(data) > chunkSize =>
                /\ DOMAIN meta = { "salt", "algorithm", "chunkCount", "chunkSize" }
                /\ meta.chunkCount = Len(chunks)
                /\ Len(chunks) > 1
                /\ \A k \in 1..Len(chunks) :
                      chunks[k].authTag[1].key.ctx = ChunkContext(k - 1)

C7_Witness ==
    /\ pc = "stored"
    /\ Len(data) = chunkSize /\ chunkSize = 2
    /\ Len(StoredContainer.chunks) = 1
    /\ DOMAIN JsonParse(stored[2]) = { "salt", "algorithm" }

\* ---- containers returned by direct calls ----
\* the plaintext length of a chunk: AES-GCM keeps the length
PlainLength(chunk) == Len(chunk.data)

\* C18: for every container encryptData or encryptDataChunked returns
\* (any data length >= 0, any chunkSize >= 1, data no longer than
\* chunkSize given to encryptDataChunked included), metadata.chunkCount is
\* present and > 1 iff chunked encryption produced the container; when
\* chunkSize is present every chunk's plaintext is at most chunkSize long
\* and only the last chunk is shorter.
C18_MetadataInvariant ==
    pc \in { "chunked", "simple" } =>
        LET meta == container.metadata
            chunks == container.chunks
        IN  /\ ("chunkCount" \in DOMAIN meta /\ meta.chunkCount > 1)
                   <=> pc = "chunked"
            /\ "chunkSize" \in DOMAIN meta =>
                   \A k \in 1..Len(chunks) :
                      /\ PlainLength(chunks[k]) <= meta.chunkSize
                      /\ k < Len(chunks) => PlainLength(chunks[k]) = meta.chunkSize

\* C20: for data of length len > 0, encryptDataChunked returns exactly
\* ceil(len / chunkSize) chunks with indices 0..n-1 in ascending order;
\* chunk i encrypts exactly the bytes [i*chunkSize, min((i+1)*chunkSize,
\* len)) under the key derived with context "chunk_i", so the plaintexts
\* are contiguous and concatenate to data; the metadata records
\* chunkCount = n and the chunkSize given.
C20_ChunkSplit ==
    (pc = "chunked" /\ Len(data) > 0) =>
        LET chunks == container.chunks
            n == Len(chunks)
            plain(k) ==
                DecipherFinal(
                    deriveKey(masterKey, container.metadata.salt,
                              "chunk_" \o ToString(k - 1)),
                    chunks[k].iv, chunks[k].data, chunks[k].authTag)
        IN  /\ (n - 1) * chunkSize < Len(data) /\ Len(data) <= n * chunkSize
            /\ \A k \in 1..n :
                  /\ chunks[k].index = k - 1
                  /\ plain(k).ok
                  /\ plain(k).plain =
                        SubSeq(data, (k - 1) * chunkSize + 1,
                               Min(k * chunkSize, Len(data)))
            /\ Concat([k \in 1..n |-> plain(k).plain]) = data
            /\ container.metadata.chunkCount = n
            /\ container.metadata.chunkSize = chunkSize

C20_Witness ==
    /\ pc = "chunked"
    /\ Len(data) = 3 /\ chunkSize = 2
    /\ Len(container.chunks) = 2
    /\ container.chunks[2].index = 1
    /\ PlainLength(container.chunks[1]) = 2
    /\ PlainLength(container.chunks[2]) = 1
    /\ container.metadata.chunkCount = 2

\* C25: decryptData and decryptDataChunked leave the container passed to
\* them unchanged, the order of its chunks included, also for a container
\* whose chunks are out of index order.
C25_DecryptKeepsInput ==
    [][ pc' \in { "decryptedChunked", "decryptedSimple" } => container' = container ]_vars

\* the direct call that made the container was encryptDataChunked
MadeByChunked == "chunkSize" \in DOMAIN container.metadata

\* C26: for every buffer D, passphrase P and chunkSize >= 1, the case
\* len(D) <= chunkSize included, decryptAuto(serializeEncryptedData(
\* encryptDataChunked(D, P, chunkSize)), P) returns D.
C26_ChunkedThroughAuto ==
    (pc = "reopened" /\ MadeByChunked /\ RightKey) => result = Returned(data)

\* ------------------------------------------------------------------------
\* The document engine (DatabaseInstance over one collection)
\* ------------------------------------------------------------------------
\* Dates (createdAt, updatedAt, modifiedAt) are not part of the model.
\* collection.documents is an object: it is modelled as the sequence of its
\* values in the property order of the host language (Object.values).
MaxOps == 3          \* calls that change the instance in one run

\* Utils.getNestedValue(obj, path) for a path without dots
getNestedValue(obj, path) == Get(obj, path)

\* Object.assign(target, source)
ObjectAssign(target, source) ==
    [k \in DOMAIN target \cup DOMAIN source |->
        IF k \in DOMAIN source THEN source[k] ELSE target[k]]

\* delete obj[key] for every key of keys
DeleteKeys(obj, keys) == [k \in DOMAIN obj \ keys |-> obj[k]]

\* relational operators of the host language: false when a side is undefined
JsLt(a, b) == a # undefined /\ b # undefined /\ a < b
JsLe(a, b) == a # undefined /\ b # undefined /\ a <= b
JsGt(a, b) == a # undefined /\ b # undefined /\ a > b
JsGe(a, b) == a # undefined /\ b # undefined /\ a >= b

\* Array.isArray(v): arrays are sequences, and the printed form of a
\* sequence is the only one that starts with <<
IsArray(v) == Len(ToString(v)) >= 2 /\ SubSeq(ToString(v), 1, 2) = "<<"

\* array.includes(value): some element is the same value (values of
\* different types are never the same)
Includes(array, value) ==
    \E k \in DOMAIN array : ToString(array[k]) = ToString(value)

\* String(v) for undefined, a boolean, a number and a string
String(v) ==
    LET printed == ToString(v)
    IN  IF Head(printed) = "\"" THEN v
        ELSE IF printed = ToString(undefined) THEN "undefined"
        ELSE IF printed = "TRUE" THEN "true"
        ELSE IF printed = "FALSE" THEN "false"
        ELSE printed

\* new RegExp(pattern).test(text) for a pattern made of literal
\* characters, with ^ allowed in front and $ at the end
RegExpTest(pattern, text) ==
    LET fromStart == Len(pattern) > 0 /\ Head(pattern) = "^"
        afterStart == IF fromStart THEN Tail(pattern) ELSE pattern
        toEnd == Len(afterStart) > 0
                 /\ SubSeq(afterStart, Len(afterStart), Len(afterStart)) = "$"
        literal == IF toEnd THEN SubSeq(afterStart, 1, Len(afterStart) - 1)
                   ELSE afterStart
    IN  \E at \in 1..(Len(text) - Len(literal) + 1) :
           /\ SubSeq(text, at, at + Len(literal) - 1) = literal
           /\ fromStart => at = 1
           /\ toEnd => at + Len(literal) - 1 = Len(text)

\* one case of the operator switch of matchesQuery: TRUE when the case
\* does not return false
OperatorPasses(op, value, condValue) ==
    CASE op = "$eq" -> ~(value # condValue)
      [] op = "$ne" -> ~(value = condValue)
      [] op = "$gt" -> ~JsLe(value, condValue)
      [] op = "$gte" -> ~JsLt(value, condValue)
      [] op = "$lt" -> ~JsGe(value, condValue)
      [] op = "$lte" -> ~JsGt(value, condValue)
      [] op = "$in" -> ~(~IsArray(condValue) \/ ~Includes(condValue, value))
      [] op = "$nin" -> ~(~IsArray(condValue) \/ Includes(condValue, value))
      [] op = "$regex" -> ~(~RegExpTest(condValue, String(value)))
      [] op = "$exists" -> /\ ~(condValue /\ value = undefined)
                           /\ ~(~condValue /\ value # undefined)
      [] OTHER -> TRUE

\* A predicate map is the sequence of its entries in key order; an entry is
\* [key, kind, val] with kind "array" (logical key, val a sequence of
\* predicate maps), "ops" (val a sequence of [op, val]) or "literal".
RECURSIVE matchesQuery(_, _)
RECURSIVE MatchEntries(_, _, _)

\* a slip: $not negates the disjunction of the sub-predicates
LogicalMatches_notSome(key, matched) ==
    CASE key = "$and" -> \A q \in DOMAIN matched : matched[q]
      [] key = "$or" -> \E q \in DOMAIN matched : matched[q]
      [] key = "$not" -> ~(\E q \in DOMAIN matched : matched[q])

\* the value returned for a logical key; matched[q] is the result of
\* matchesQuery(data, q) for the q-th sub-predicate: every, some, !every
LogicalMatches(key, matched) ==
    CASE key = "$and" -> \A q \in DOMAIN matched : matched[q]
      [] key = "$or" -> \E q \in DOMAIN matched : matched[q]
      [] key = "$not" -> ~(\A q \in DOMAIN matched : matched[q])

\* the body of the for-loop of matchesQuery from entry k on
MatchEntries(docData, where, k) ==
    IF k > Len(where) THEN TRUE
    ELSE LET key == where[k].key
             condition == where[k].val
         IN  IF key \in { "$and", "$or", "$not" }
             THEN LogicalMatches(key, [q \in 1..Len(condition) |->
                                         matchesQuery(docData, condition[q])])
             ELSE LET value == getNestedValue(docData, key)
                  IN  IF where[k].kind = "ops"
                      THEN IF \A o \in 1..Len(condition) :
                                 OperatorPasses(condition[o].op, value, condition[o].val)
                           THEN MatchEntries(docData, where, k + 1)
                           ELSE FALSE
                      ELSE IF value # condition THEN FALSE
                           ELSE MatchEntries(docData, where, k + 1)

matchesQuery(docData, where) == MatchEntries(docData, where, 1)

\* a slip: $inc is applied before $set and $unset
applyUpdate_incFirst(docData, payload) ==
    IF "$set" \in DOMAIN payload
    THEN LET afterInc == IF "$inc" \in DOMAIN payload
                         THEN [k \in DOMAIN docData \cup DOMAIN payload["$inc"] |->
                                 IF k \in DOMAIN payload["$inc"]
                                 THEN (IF Truthy(Get(docData, k)) THEN docData[k] ELSE 0)
                                      + payload["$inc"][k]
                                 ELSE docData[k]]
                         ELSE docData
             afterSet == ObjectAssign(afterInc, payload["$set"])
         IN  IF "$unset" \in DOMAIN payload
             THEN DeleteKeys(afterSet, DOMAIN payload["$unset"])
             ELSE afterSet
    ELSE ObjectAssign(docData, payload)

\* applyUpdate(document, data): the new document.data
applyUpdate(docData, payload) ==
    IF "$set" \in DOMAIN payload
    THEN LET afterSet == ObjectAssign(docData, payload["$set"])
             afterUnset == IF "$unset" \in DOMAIN payload
                           THEN DeleteKeys(afterSet, DOMAIN payload["$unset"])
                           ELSE afterSet
         IN  IF "$inc" \in DOMAIN payload
             THEN [k \in DOMAIN afterUnset \cup DOMAIN payload["$inc"] |->
                     IF k \in DOMAIN payload["$inc"]
                     THEN (IF Truthy(Get(afterUnset, k)) THEN afterUnset[k] ELSE 0)
                          + payload["$inc"][k]
                     ELSE afterUnset[k]]
             ELSE afterUnset
    ELSE ObjectAssign(docData, payload)

\* array.filter(pred) for a predicate given as the set of kept elements
RECURSIVE Filter(_, _)
Filter(list, keep) ==
    IF list = <<>> THEN <<>>
    ELSE IF Head(list) \in keep THEN <<Head(list)>> \o Filter(Tail(list), keep)
    ELSE Filter(Tail(list), keep)

Range(list) == { list[k] : k \in 1..Len(list) }

\* array.slice(start) and array.slice(0, end) for start, end >= 0
SliceFrom(list, start) == SubSeq(list, start + 1, Len(list))
SliceTo(list, end) == SubSeq(list, 1, Min(end, Len(list)))

\* The comparator of sortDocuments from the k-th entry of the sort
\* specification on; sort is the sequence of its [key, order] entries.
\* A comparison with undefined is false both ways and falls through.
RECURSIVE CompareFrom(_, _, _, _)
CompareFrom(a, b, sort, k) ==
    IF k > Len(sort) THEN 0
    ELSE LET aVal == getNestedValue(a.data, sort[k].key)
             bVal == getNestedValue(b.data, sort[k].key)
         IN  IF JsLt(aVal, bVal) THEN (IF sort[k].order = 1 THEN -1 ELSE 1)
             ELSE IF JsGt(aVal, bVal) THEN (IF sort[k].order = 1 THEN 1 ELSE -1)
             ELSE CompareFrom(a, b, sort, k + 1)

Compare(a, b, sort) == CompareFrom(a, b, sort, 1)

\* Array.prototype.sort is the engine's merge sort of natural runs; an
\* array shorter than 64 elements is one run: the leading run is counted
\* (and reversed when strictly descending), the rest is put in place by
\* binary insertion.  Positions are those of the array, from 1.

\* the last position of the run that starts at 1, scanning from idx
RECURSIVE RunEnd(_, _, _, _)
RunEnd(arr, sort, isDescending, idx) ==
    IF idx > Len(arr) THEN idx - 1
    ELSE LET order == Compare(arr[idx], arr[idx - 1], sort)
         IN  IF (isDescending /\ order >= 0) \/ (~isDescending /\ order < 0)
             THEN idx - 1
             ELSE RunEnd(arr, sort, isDescending, idx + 1)

Reverse(arr) == [k \in 1..Len(arr) |-> arr[Len(arr) + 1 - k]]

\* the position at which pivot goes among arr[left..right-1]: after
\* every element it does not compare below
RECURSIVE BinarySearch(_, _, _, _, _)
BinarySearch(arr, sort, pivot, left, right) ==
    IF left >= right THEN left
    ELSE LET mid == left + ((right - left) \div 2)
         IN  IF Compare(pivot, arr[mid], sort) < 0
             THEN BinarySearch(arr, sort, pivot, left, mid)
             ELSE BinarySearch(arr, sort, pivot, mid + 1, right)

\* arr[1..start-1] is in order; put arr[start..] in place one by one
RECURSIVE BinaryInsertionSort(_, _, _)
BinaryInsertionSort(arr, sort, start) ==
    IF start > Len(arr) THEN arr
    ELSE LET pivot == arr[start]
             left == BinarySearch(arr, sort, pivot, 1, start)
             placed == [p \in 1..Len(arr) |->
                          IF p < left THEN arr[p]
                          ELSE IF p = left THEN pivot
                          ELSE IF p <= start THEN arr[p - 1]
                          ELSE arr[p]]
         IN  BinaryInsertionSort(placed, sort, start + 1)

\* a slip: the array is returned as it was given
sortDocuments_unsorted(docs, sort) == docs

\* sortDocuments(documents, sort): [...documents].sort(comparator)
sortDocuments(docs, sort) ==
    IF Len(docs) < 2 THEN docs
    ELSE LET isDescending == Compare(docs[2], docs[1], sort) < 0
             runLength == RunEnd(docs, sort, isDescending, 3)
             run == IF isDescending
                    THEN Reverse(SubSeq(docs, 1, runLength))
                         \o SubSeq(docs, runLength + 1, Len(docs))
                    ELSE docs
         IN  BinaryInsertionSort(run, sort, runLength + 1)

\* a slip: totalCount is taken after skip and limit were applied
find_countAfterPaging(docs, query) ==
    LET matching == IF "where" \in DOMAIN query
                    THEN Filter(docs, {d \in Range(docs) : matchesQuery(d.data, query.where)})
                    ELSE docs
        live == IF ~("includeDeleted" \in DOMAIN query /\ query.includeDeleted)
                THEN Filter(matching, {d \in Range(matching) : ~d._meta.deleted})
                ELSE matching
        skip == IF Truthy(Get(query, "skip")) THEN query.skip ELSE 0
        limit == Get(query, "limit")
        sorted == IF "sort" \in DOMAIN query
                  THEN sortDocuments(live, query.sort)
                  ELSE live
        skipped == IF skip > 0 THEN SliceFrom(sorted, skip) ELSE sorted
        page == IF Truthy(limit) THEN SliceTo(skipped, limit) ELSE skipped
        totalCount == Len(page)
    IN  [success |-> TRUE,
         data |-> [k \in 1..Len(page) |->
                     ObjectAssign([_id |-> page[k]._id], page[k].data)],
         totalCount |-> totalCount,
         hasMore |-> skip + Len(page) < totalCount]

\* the result of find(collectionName, query); query holds the keys given
\* among where and the options includeDeleted, sort, skip, limit
\* (projection not given)
find(docs, query) ==
    LET matching == IF "where" \in DOMAIN query
                    THEN Filter(docs, {d \in Range(docs) : matchesQuery(d.data, query.where)})
                    ELSE docs
        live == IF ~("includeDeleted" \in DOMAIN query /\ query.includeDeleted)
                THEN Filter(matching, {d \in Range(matching) : ~d._meta.deleted})
                ELSE matching
        totalCount == Len(live)
        sorted == IF "sort" \in DOMAIN query
                  THEN sortDocuments(live, query.sort)
                  ELSE live
        skip == IF Truthy(Get(query, "skip")) THEN query.skip ELSE 0
        limit == Get(query, "limit")
        skipped == IF skip > 0 THEN SliceFrom(sorted, skip) ELSE sorted
        page == IF Truthy(limit) THEN SliceTo(skipped, limit) ELSE skipped
    IN  [success |-> TRUE,
         data |-> [k \in 1..Len(page) |->
                     ObjectAssign([_id |-> page[k]._id], page[k].data)],
         totalCount |-> totalCount,
         hasMore |-> skip + Len(page) < totalCount]

\* the documents update() and delete() select: not deleted and matching
Selected(docs, where) ==
    Filter(docs, {d \in Range(docs) : ~d._meta.deleted /\ matchesQuery(d.data, where)})

\* a slip: the loop goes on after the first document without multi
Reached_all(selected, multi) == selected

\* the documents the loop of update() / delete() reaches: all of the
\* selected ones with options.multi, else the first
Reached(selected, multi) ==
    IF multi \/ selected = <<>> THEN selected ELSE << Head(selected) >>

\* the collection after the loop of update()
UpdateLoop(docs, reached, payload) ==
    LET ids == { d._id : d \in Range(reached) }
    IN  [k \in 1..Len(docs) |->
            IF docs[k]._id \in ids
            THEN [docs[k] EXCEPT !.data = applyUpdate(@, payload),
                                 !._meta.version = @ + 1]
            ELSE docs[k]]

\* a slip: a soft delete removes the entry as a hard delete does
DeleteLoop_alwaysRemove(docs, reached, hard) ==
    Filter(docs, {d \in Range(docs) : d._id \notin { r._id : r \in Range(reached) }})

\* the collection after the loop of delete()
DeleteLoop(docs, reached, hard) ==
    LET ids == { d._id : d \in Range(reached) }
    IN  IF hard
        THEN Filter(docs, {d \in Range(docs) : d._id \notin ids})
        ELSE [k \in 1..Len(docs) |->
                IF docs[k]._id \in ids
                THEN [docs[k] EXCEPT !._meta.deleted = TRUE]
                ELSE docs[k]]

\* the keys of collection.documents
Keys(docs) == { d._id : d \in Range(docs) }

\* a slip: a soft-deleted entry does not count as present
HasDocument_live(docs, id) ==
    \E k \in 1..Len(docs) : docs[k]._id = id /\ ~docs[k]._meta.deleted

\* collection.documents[id] is an entry (live or soft-deleted)
HasDocument(docs, id) == id \in Keys(docs)

\* collection.documents[id]
DocumentAt(docs, id) == CHOOSE d \in Range(docs) : d._id = id

\* the canonical array-index strings among the ids drawn, in value order
IntegerKeys == << "0", "1", "2", "3", "4", "5", "6", "7", "8", "9" >>

\* the number an id stands for when it is an integer-like property key
ArrayIndexOf(id) ==
    IF \E n \in DOMAIN IntegerKeys : IntegerKeys[n] = id
    THEN (CHOOSE n \in DOMAIN IntegerKeys : IntegerKeys[n] = id) - 1
    ELSE undefined

\* collection.documents[doc._id] = doc for a key not present: integer-like
\* keys are enumerated first, in ascending numeric order, the other keys
\* after them in the order they were added
PutEntry(docs, doc) ==
    IF ArrayIndexOf(doc._id) = undefined THEN Append(docs, doc)
    ELSE LET before == Cardinality({ k \in DOMAIN docs :
                          /\ ArrayIndexOf(docs[k]._id) # undefined
                          /\ ArrayIndexOf(docs[k]._id) < ArrayIndexOf(doc._id) })
         IN  SubSeq(docs, 1, before) \o << doc >>
             \o SubSeq(docs, before + 1, Len(docs))

\* a slip: the version starts at 0
NewDocument_version0(id, d) ==
    [_id |-> id, data |-> d, _meta |-> [version |-> 0, deleted |-> FALSE]]

\* the document insert / insertMany build (deleted is not set: FALSE)
NewDocument(id, d) ==
    [_id |-> id, data |-> d, _meta |-> [version |-> 1, deleted |-> FALSE]]

\* the collection after the for-loop of insertMany: ids[k] is the id
\* generated for dataArray[k]
InsertManyLoop(docs, dataArray, ids) ==
    docs \o [k \in 1..Len(dataArray) |-> NewDocument(ids[k], dataArray[k])]

\* a slip: a hard delete takes 1 off the count whatever the loop removed
CountAfterDelete_one(count, reached, hard) ==
    IF hard THEN count - 1 ELSE count

\* collection._meta.documentCount after the loop of delete()
CountAfterDelete(count, reached, hard) ==
    IF hard THEN count - Len(reached) ELSE count

\* Object.assign(document.data, data) and version++ of updateById
UpdateDocument(docs, id, payload) ==
    [k \in 1..Len(docs) |->
        IF docs[k]._id = id
        THEN [docs[k] EXCEPT !.data = ObjectAssign(@, payload),
                             !._meta.version = @ + 1]
        ELSE docs[k]]

\* the collection after deleteById found the document
DeleteDocument(docs, id, hard) ==
    IF hard
    THEN Filter(docs, {d \in Range(docs) : d._id # id})
    ELSE [k \in 1..Len(docs) |->
            IF docs[k]._id = id
            THEN [docs[k] EXCEPT !._meta.deleted = TRUE]
            ELSE docs[k]]

\* ---- the database file ----
\* JSON.stringify of a document: a key whose value is undefined (deleted
\* of a document never deleted) is left out
StringifyDocument(doc) ==
    [_id |-> doc._id, data |-> doc.data,
     _meta |-> IF doc._meta.deleted
               THEN [version |-> doc._meta.version, deleted |-> TRUE]
               ELSE [version |-> doc._meta.version]]

\* JSON.parse of a document of the file
ParseDocument(json) ==
    [_id |-> json._id, data |-> json.data,
     _meta |-> [version |-> json._meta.version,
                deleted |-> ("deleted" \in DOMAIN json._meta /\ json._meta.deleted)]]

\* JSON.stringify(this.database): the collection, when it is there, with
\* its documents and its documentCount
StringifyDatabase(isCreated, docs, count) ==
    [created |-> isCreated,
     documents |-> [k \in 1..Len(docs) |-> StringifyDocument(docs[k])],
     documentCount |-> count]

\* what loadDatabase would parse from the file
ParseDatabase(json) ==
    [created |-> json.created,
     documents |-> [k \in 1..Len(json.documents) |-> ParseDocument(json.documents[k])],
     documentCount |-> json.documentCount]

\* save(): the file after the call; written is the file before it
save(enabled, written, isCreated, docs, count) ==
    IF ~enabled THEN written
    ELSE StringifyDatabase(isCreated, docs, count)

\* ---- inputs drawn by the actions ----
IdPool == << "a", "b", "c", "d", "e", "f", "g", "h", "i", "j", "k", "l" >>
InsertData == { [x |-> 1], [x |-> 5], [x |-> 10] }

\* arrays given to insertMany
InsertArrays == { << >>, << [x |-> 1], [x |-> 5] >> }

\* an id no document was ever inserted under
MissingId == "none"

Lit(k, v) == [key |-> k, kind |-> "literal", val |-> v]
Ops(k, o, v) == [key |-> k, kind |-> "ops", val |-> << [op |-> o, val |-> v] >>]
Logical(k, qs) == [key |-> k, kind |-> "array", val |-> qs]

\* predicates given to update and delete
Wheres ==
    { << >>,
      << Lit("x", 10) >>,
      << Ops("x", "$gte", 5) >> }

\* predicates with logical keys, given to find
LogicalWheres ==
    { << Lit("y", 2), Logical("$or", << <<Lit("x", 1)>>, <<Lit("x", 5)>> >>) >>,
      << Logical("$or", << <<Lit("x", 1)>>, <<Lit("x", 5)>> >>), Lit("y", 2) >>,
      << Logical("$and", << <<Ops("x", "$gte", 5)>> >>),
         Logical("$not", << <<Lit("x", 10)>> >>) >> }

\* predicates given to find
FindWheres == Wheres \cup LogicalWheres

\* the object { key: value }
Obj(key, value) == [k \in {key} |-> value]

Payloads ==
    { [y |-> 2],
      Obj("$inc", [x |-> 3]),
      ObjectAssign(Obj("$set", [y |-> 2]), Obj("$inc", [x |-> 3])) }

OptionalKeys(base, key, values) ==
    base \cup { ObjectAssign(q, Obj(key, v)) : q \in base, v \in values }

\* the queries given to find: the predicates of Wheres with every choice
\* of includeDeleted, skip and limit, those of LogicalWheres with and
\* without includeDeleted
FindQueries ==
    OptionalKeys(OptionalKeys(OptionalKeys(
        { << >> } \cup { [where |-> w] : w \in Wheres },
        "includeDeleted", { TRUE }), "skip", { 1, 2 }), "limit", { 0, 1 })
    \cup OptionalKeys({ [where |-> w] : w \in LogicalWheres },
                      "includeDeleted", { TRUE })

\* ---- the state machine ----
\* the codec is not exercised while the document engine runs
CodecIdle ==
    /\ data = <<>>
    /\ masterKey = ""
    /\ chunkSize = 1
    /\ stored = <<>>
    /\ tamper = NoTamper
    /\ decryptKey = ""
    /\ result = NoResult
    /\ pc = "idle"
    /\ container = NoContainer

\* a database with one empty collection has been opened, and saved
Init ==
    /\ CodecIdle
    /\ documents = <<>>
    /\ documentCount = 0
    /\ inserted = 0
    /\ ops = 0
    /\ last = [op |-> "open"]
    /\ created = TRUE
    /\ autoSaveEnabled = TRUE
    /\ file = StringifyDatabase(TRUE, <<>>, 0)
    /\ registered = TRUE
    /\ encryptionKey = ValidKey

\* A call that leaves the database as it was (a find, a thrown error, a
\* "not found" result) ends the run: it is observed and not explored
\* further.
Observed ==
    \/ last.op \in { "find", "findById", "throw" }
    \/ ("result" \in DOMAIN last /\ ~last.result.success)

\* a call made on the instance: one more of the MaxOps calls of a run
Called ==
    /\ ~Observed
    /\ ops < MaxOps
    /\ ops' = ops + 1
    /\ UNCHANGED codecVars
    /\ UNCHANGED << registered, encryptionKey >>

\* getCollection(name) throws: nothing but the outcome is recorded
CollectionNotFound(call) ==
    /\ last' = [op |-> "throw", call |-> call, thrown |-> "COLLECTION_NOT_FOUND"]
    /\ UNCHANGED << documents, documentCount, inserted, created,
                    autoSaveEnabled, file >>

\* createCollection(name)
CreateCollection ==
    /\ Called
    /\ UNCHANGED << inserted, autoSaveEnabled >>
    /\ IF created
       THEN /\ last' = [op |-> "throw", call |-> "createCollection",
                        thrown |-> "COLLECTION_ALREADY_EXISTS"]
            /\ UNCHANGED << documents, documentCount, created, file >>
       ELSE /\ created' = TRUE
            /\ documents' = <<>>
            /\ documentCount' = 0
            /\ file' = save(autoSaveEnabled, file, TRUE, <<>>, 0)
            /\ last' = [op |-> "createCollection"]

\* deleteCollection(name)
DeleteCollection ==
    /\ Called
    /\ UNCHANGED << inserted, autoSaveEnabled >>
    /\ IF ~created
       THEN CollectionNotFound("deleteCollection")
       ELSE /\ created' = FALSE
            /\ documents' = <<>>
            /\ documentCount' = 0
            /\ file' = save(autoSaveEnabled, file, FALSE, <<>>, 0)
            /\ last' = [op |-> "deleteCollection"]

\* insert(collectionName, data, customId) with _id the id it settles on
InsertCall(d, id) ==
    /\ Called
    /\ UNCHANGED autoSaveEnabled
    /\ IF ~created
       THEN CollectionNotFound("insert")
       ELSE IF HasDocument(documents, id)
       THEN /\ last' = [op |-> "insert", thrown |-> "DUPLICATE_ID"]
            /\ UNCHANGED << documents, documentCount, inserted, created, file >>
       ELSE /\ documents' = PutEntry(documents, NewDocument(id, d))
            /\ documentCount' = documentCount + 1
            /\ inserted' = inserted + 1
            /\ UNCHANGED created
            /\ file' = save(autoSaveEnabled, file, created,
                            documents', documentCount')
            /\ last' = [op |-> "insert", thrown |-> "",
                        result |-> [success |-> TRUE, insertedIds |-> <<id>>,
                                    insertedCount |-> 1]]

\* the ids an insert can settle on: the id of a stored document or the
\* next id never used before
InsertIds ==
    Keys(documents) \cup { IdPool[k] : k \in { inserted + 1 } \cap DOMAIN IdPool }

Insert == \E d \in InsertData, id \in InsertIds : InsertCall(d, id)

\* insertMany(collectionName, dataArray): generateShortId gives each
\* document an id never used before
InsertManyCall(dataArray) ==
    /\ Called
    /\ UNCHANGED autoSaveEnabled
    /\ IF ~created
       THEN CollectionNotFound("insertMany")
       ELSE LET ids == [k \in 1..Len(dataArray) |-> IdPool[inserted + k]]
            IN  /\ documents' = InsertManyLoop(documents, dataArray, ids)
                /\ documentCount' = documentCount + Len(dataArray)
                /\ inserted' = inserted + Len(dataArray)
                /\ UNCHANGED created
                /\ file' = save(autoSaveEnabled, file, created,
                                documents', documentCount')
                /\ last' = [op |-> "insertMany",
                            result |-> [success |-> TRUE, insertedIds |-> ids,
                                        insertedCount |-> Len(dataArray)]]

InsertMany ==
    \E dataArray \in InsertArrays :
        /\ inserted + Len(dataArray) <= Len(IdPool)
        /\ InsertManyCall(dataArray)

\* update(collectionName, where, data, options)
UpdateCall(where, payload, multi) ==
    /\ Called
    /\ UNCHANGED << documentCount, inserted, created, autoSaveEnabled >>
    /\ IF ~created
       THEN /\ CollectionNotFound("update")
       ELSE LET selected == Selected(documents, where)
                reached == Reached(selected, multi)
            IN  /\ documents' = UpdateLoop(documents, reached, payload)
                /\ file' = IF Len(reached) > 0
                           THEN save(autoSaveEnabled, file, created,
                                     documents', documentCount)
                           ELSE file
                /\ last' = [op |-> "update", payload |-> payload,
                            result |-> [success |-> TRUE,
                                        matchedCount |-> Len(selected),
                                        modifiedCount |-> Len(reached)]]

Update ==
    \E where \in Wheres, payload \in Payloads, multi \in BOOLEAN :
        UpdateCall(where, payload, multi)

\* updateById(collectionName, id, data)
UpdateByIdCall(id, payload) ==
    /\ Called
    /\ UNCHANGED << documentCount, inserted, created, autoSaveEnabled >>
    /\ IF ~created
       THEN CollectionNotFound("updateById")
       ELSE IF ~HasDocument(documents, id) \/ DocumentAt(documents, id)._meta.deleted
       THEN /\ last' = [op |-> "updateById",
                        result |-> [success |-> FALSE, matchedCount |-> 0,
                                    modifiedCount |-> 0]]
            /\ UNCHANGED << documents, file >>
       ELSE /\ documents' = UpdateDocument(documents, id, payload)
            /\ file' = save(autoSaveEnabled, file, created,
                            documents', documentCount)
            /\ last' = [op |-> "updateById",
                        result |-> [success |-> TRUE, matchedCount |-> 1,
                                    modifiedCount |-> 1]]

\* the ids given to updateById and deleteById
TargetIds == Keys(documents) \cup { MissingId }

UpdateById ==
    \E id \in TargetIds, payload \in Payloads : UpdateByIdCall(id, payload)

\* delete(collectionName, where, options)
DeleteCall(where, hard, multi) ==
    /\ Called
    /\ UNCHANGED << inserted, created, autoSaveEnabled >>
    /\ IF ~created
       THEN CollectionNotFound("delete")
       ELSE LET selected == Selected(documents, where)
                reached == Reached(selected, multi)
            IN  /\ documents' = DeleteLoop(documents, reached, hard)
                /\ documentCount' = CountAfterDelete(documentCount, reached, hard)
                /\ file' = IF Len(reached) > 0
                           THEN save(autoSaveEnabled, file, created,
                                     documents', documentCount')
                           ELSE file
                /\ last' = [op |-> "delete", hard |-> hard,
                            result |-> [success |-> TRUE,
                                        deletedCount |-> Len(reached)]]

Delete ==
    \E where \in Wheres, hard \in BOOLEAN, multi \in BOOLEAN :
        DeleteCall(where, hard, multi)

\* deleteById(collectionName, id, hard)
DeleteByIdCall(id, hard) ==
    /\ Called
    /\ UNCHANGED << inserted, created, autoSaveEnabled >>
    /\ IF ~created
       THEN CollectionNotFound("deleteById")
       ELSE IF ~HasDocument(documents, id) \/ DocumentAt(documents, id)._meta.deleted
       THEN /\ last' = [op |-> "deleteById",
                        result |-> [success |-> FALSE, deletedCount |-> 0]]
            /\ UNCHANGED << documents, documentCount, file >>
       ELSE /\ documents' = DeleteDocument(documents, id, hard)
            /\ documentCount' = IF hard THEN documentCount - 1 ELSE documentCount
            /\ file' = save(autoSaveEnabled, file, created,
                            documents', documentCount')
            /\ last' = [op |-> "deleteById",
                        result |-> [success |-> TRUE, deletedCount |-> 1]]

DeleteById ==
    \E id \in TargetIds, hard \in BOOLEAN : DeleteByIdCall(id, hard)

\* find(collectionName, query)
Find ==
    /\ ~Observed
    /\ UNCHANGED codecVars
    /\ UNCHANGED << documents, documentCount, inserted, ops, created,
                    autoSaveEnabled, file, registered, encryptionKey >>
    /\ IF ~created
       THEN last' = [op |-> "throw", call |-> "find",
                     thrown |-> "COLLECTION_NOT_FOUND"]
       ELSE \E query \in FindQueries :
               last' = [op |-> "find", query |-> query,
                        result |-> find(documents, query)]

\* setAutoSave(enabled)
SetAutoSave ==
    /\ Called
    /\ \E enabled \in BOOLEAN : autoSaveEnabled' = enabled
    /\ last' = [op |-> "setAutoSave"]
    /\ UNCHANGED << documents, documentCount, inserted, created, file >>

Next ==
    \/ CreateCollection
    \/ DeleteCollection
    \/ Insert
    \/ InsertMany
    \/ Update
    \/ UpdateById
    \/ Delete
    \/ DeleteById
    \/ Find
    \/ SetAutoSave

Spec == Init /\ [][Next]_vars

\* ------------------------------------------------------------------------
\* The database manager (Blooby) over one database file
\* ------------------------------------------------------------------------
\* The caller keeps the DatabaseInstance it got last from createDatabase
\* or openDatabase and goes on calling it, also after closeDatabase and
\* deleteDatabase.  The file is written under encryptionKey by every writer.

\* the content of a path at which there is no file
NoFile == [missing |-> TRUE]

\* fs.existsSync(dbPath)
FileExists == "created" \in DOMAIN file

\* a call made on the manager: one more of the MaxOps calls of a run
ManagerCalled ==
    /\ ~Observed
    /\ ops < MaxOps
    /\ ops' = ops + 1
    /\ UNCHANGED << codecVars, inserted >>

\* the keys given to the manager: two that validateEncryptionKey accepts
\* and one that is too short
ManagerKeys == { ValidKey, OtherValidKey, "pw" }

\* key.toLowerCase() for a key of letters, digits and dashes
LowerCase(key) ==
    LET upper == "ABCDEFGHIJKLMNOPQRSTUVWXYZ"
        lower == "abcdefghijklmnopqrstuvwxyz"
        Char(k) == SubSeq(key, k, k)
        Lowered(c) == IF \E n \in 1..26 : SubSeq(upper, n, n) = c
                      THEN LET n == CHOOSE n \in 1..26 : SubSeq(upper, n, n) = c
                           IN  SubSeq(lower, n, n)
                      ELSE c
    IN  [k \in 1..Len(key) |-> Lowered(Char(k))]

\* key starts with prefix, letter case ignored
StartsWithIgnoringCase(key, prefix) ==
    /\ Len(key) >= Len(prefix)
    /\ \A k \in 1..Len(prefix) : LowerCase(key)[k] = SubSeq(prefix, k, k)

\* validateEncryptionKey(key).valid: no error was pushed
validateEncryptionKey(key) ==
    /\ ~(Len(key) < 16)
    /\ ~(Len(key) < 32)
    /\ ~(Len(key) >= 2 /\ \A k \in 1..Len(key) : SubSeq(key, k, k) = Head(key))
    /\ ~(\/ StartsWithIgnoringCase(key, "0123456789")
         \/ StartsWithIgnoringCase(key, "abcdefgh")
         \/ StartsWithIgnoringCase(key, "qwerty"))

\* createDatabase(fileName, key): the instance the caller uses from now
\* on is the one returned
CreateDatabaseCall(key) ==
    /\ ManagerCalled
    /\ IF FileExists
       THEN /\ last' = [op |-> "createDatabase", key |-> key,
                        thrown |-> "DATABASE_ALREADY_EXISTS"]
            /\ UNCHANGED << documents, documentCount, created, autoSaveEnabled,
                            file, registered, encryptionKey >>
       ELSE IF ~validateEncryptionKey(key)
       THEN /\ last' = [op |-> "createDatabase", key |-> key,
                        thrown |-> "INVALID_ENCRYPTION_KEY"]
            /\ UNCHANGED << documents, documentCount, created, autoSaveEnabled,
                            file, registered, encryptionKey >>
       ELSE /\ created' = FALSE
            /\ documents' = << >>
            /\ documentCount' = 0
            /\ autoSaveEnabled' = TRUE
            /\ file' = StringifyDatabase(FALSE, << >>, 0)
            /\ registered' = TRUE
            /\ encryptionKey' = key
            /\ last' = [op |-> "createDatabase", key |-> key, thrown |-> ""]

CreateDatabase == \E key \in ManagerKeys : CreateDatabaseCall(key)

\* loadDatabase(dbPath, key) decrypts the file: decryptAuto returns the
\* plaintext under the key the file was written with and throws under
\* any other (C1, C3)
KeyOpens(key) == key = encryptionKey

\* openDatabase(fileName, key)
OpenDatabaseCall(key) ==
    /\ ManagerCalled
    /\ UNCHANGED << file, encryptionKey >>
    /\ IF ~FileExists
       THEN /\ last' = [op |-> "openDatabase", key |-> key,
                        thrown |-> "DATABASE_NOT_FOUND"]
            /\ UNCHANGED << documents, documentCount, created,
                            autoSaveEnabled, registered >>
       ELSE IF registered
       THEN /\ last' = [op |-> "openDatabase", key |-> key, thrown |-> ""]
            /\ UNCHANGED << documents, documentCount, created,
                            autoSaveEnabled, registered >>
       ELSE IF ~KeyOpens(key)
       THEN /\ last' = [op |-> "openDatabase", key |-> key,
                        thrown |-> "Decryption failed"]
            /\ UNCHANGED << documents, documentCount, created,
                            autoSaveEnabled, registered >>
       ELSE /\ created' = ParseDatabase(file).created
            /\ documents' = ParseDatabase(file).documents
            /\ documentCount' = ParseDatabase(file).documentCount
            /\ autoSaveEnabled' = TRUE
            /\ registered' = TRUE
            /\ last' = [op |-> "openDatabase", key |-> key, thrown |-> ""]

OpenDatabase == \E key \in ManagerKeys : OpenDatabaseCall(key)

\* closeDatabase(fileName): instance.close(), then databases.delete
CloseDatabase ==
    /\ ManagerCalled
    /\ UNCHANGED << documents, documentCount, created, autoSaveEnabled,
                    encryptionKey >>
    /\ IF ~registered
       THEN /\ last' = [op |-> "closeDatabase", thrown |-> "DATABASE_NOT_FOUND"]
            /\ UNCHANGED << file, registered >>
       ELSE /\ file' = save(autoSaveEnabled, file, created, documents, documentCount)
            /\ registered' = FALSE
            /\ last' = [op |-> "closeDatabase", thrown |-> ""]

\* deleteDatabase(fileName): closeDatabase if open, then fs.unlinkSync
DeleteDatabase ==
    /\ ManagerCalled
    /\ UNCHANGED << documents, documentCount, created, autoSaveEnabled,
                    encryptionKey >>
    /\ IF ~FileExists
       THEN /\ last' = [op |-> "deleteDatabase", thrown |-> "DATABASE_NOT_FOUND"]
            /\ UNCHANGED << file, registered >>
       ELSE /\ file' = NoFile
            /\ registered' = FALSE
            /\ last' = [op |-> "deleteDatabase", thrown |-> ""]

\* close() called on the instance the caller holds
Close ==
    /\ Called
    /\ UNCHANGED << documents, documentCount, inserted, created, autoSaveEnabled >>
    /\ file' = save(autoSaveEnabled, file, created, documents, documentCount)
    /\ last' = [op |-> "close"]

\* createDatabase(fileName, key) has returned the instance; a collection
\* was created on it
InitManager ==
    /\ CodecIdle
    /\ documents = <<>>
    /\ documentCount = 0
    /\ inserted = 0
    /\ ops = 0
    /\ last = [op |-> "open"]
    /\ created = TRUE
    /\ autoSaveEnabled = TRUE
    /\ file = StringifyDatabase(TRUE, <<>>, 0)
    /\ registered = TRUE
    /\ encryptionKey \in { k \in ManagerKeys : validateEncryptionKey(k) }

NextManager ==
    \/ CreateDatabase
    \/ OpenDatabase
    \/ CloseDatabase
    \/ DeleteDatabase
    \/ Close
    \/ CreateCollection
    \/ Insert
    \/ SetAutoSave

SpecManager == InitManager /\ [][NextManager]_vars

\* C27: openDatabase(fileName, key) returns a DatabaseInstance only if key
\* is the passphrase the database file was encrypted with; with another
\* key it fails, also when the database is already open in the manager.
C27_NoAccessWithoutKey ==
    (last.op = "openDatabase" /\ last.thrown = "") => last.key = encryptionKey

\* C30: once deleteDatabase has returned, the file does not exist until
\* createDatabase is called, whatever is called on an instance obtained
\* before; and an instance closed with closeDatabase no longer writes the
\* file.
C30_DeletedStaysDeleted ==
    [][ /\ (~FileExists /\ last'.op # "createDatabase") => file' = NoFile
        /\ (~registered /\ last'.op \in { "insert", "setAutoSave", "close" })
              => file' = file
      ]_vars

\* ------------------------------------------------------------------------
\* Queries over documents of any shape and id
\* ------------------------------------------------------------------------
\* The calls of this machine draw documents that lack a field, documents
\* with a data field named _id, custom ids that are integer-like property
\* keys, payloads with all three modifiers and queries with a sort
\* specification or a single logical key.

\* data given to insert
QueryData == { [x |-> 1], [x |-> 10], [y |-> 2], [x |-> 5, _id |-> "z"] }

\* custom ids given to insert
CustomIds == { "1", "2" }

\* update payloads with a $set key
ModifierPayloads ==
    { ObjectAssign(ObjectAssign(Obj("$set", [x |-> 1]), Obj("$unset", [x |-> TRUE])),
                   Obj("$inc", [x |-> 2])),
      ObjectAssign(Obj("$set", [y |-> 7]), Obj("$inc", [x |-> 3, y |-> 1])),
      ObjectAssign(Obj("$set", [x |-> 1]), Obj("$unset", [y |-> TRUE])) }

\* a sort specification of one entry
SortBy(k, o) == << [key |-> k, order |-> o] >>

\* predicate maps whose only key is a logical key
SingleLogicalWheres ==
    { << Logical(key, subs) >> :
        key \in { "$and", "$or", "$not" },
        subs \in { << >>,
                   << <<Ops("x", "$gte", 5)>>, <<Lit("x", 10)>> >>,
                   << <<Lit("y", 2)>> >> } }

\* predicate maps with one relational operator on one field
ComparisonWheres ==
    { << Ops("x", o, 5) >> : o \in { "$gt", "$gte", "$lt", "$lte" } }

\* predicate maps with $in, $nin (an array and a non-array operand) and
\* $regex
MembershipWheres ==
    { << Ops("x", "$in", << 1, 10 >>) >>,
      << Ops("x", "$nin", << 1 >>) >>,
      << Ops("y", "$in", 2) >>,
      << Ops("y", "$nin", 7) >> }

RegexWheres ==
    { << Ops("_id", "$regex", "^z") >>,
      << Ops("_id", "$regex", "d$") >>,
      << Ops("x", "$regex", "^1") >> }

SortQueries ==
    { [sort |-> SortBy("x", 1)], [sort |-> SortBy("x", -1)],
      [sort |-> SortBy("x", 1) \o SortBy("y", -1)] }

QueryFindQueries ==
    { << >> } \cup SortQueries
    \cup { [where |-> w] : w \in SingleLogicalWheres \cup ComparisonWheres
                                 \cup MembershipWheres \cup RegexWheres }

InsertAny ==
    \E d \in QueryData, id \in CustomIds \cup InsertIds : InsertCall(d, id)

UpdateAny ==
    \E payload \in ModifierPayloads, multi \in BOOLEAN :
        UpdateCall(<< >>, payload, multi)

\* find(collectionName, query)
FindAny ==
    /\ ~Observed
    /\ created
    /\ UNCHANGED codecVars
    /\ UNCHANGED << documents, documentCount, inserted, ops, created,
                    autoSaveEnabled, file, registered, encryptionKey >>
    /\ \E query \in QueryFindQueries :
          last' = [op |-> "find", query |-> query,
                   result |-> find(documents, query)]

\* the value findById(collectionName, id) returns: null is << >>
findById(docs, id) ==
    IF ~HasDocument(docs, id) \/ DocumentAt(docs, id)._meta.deleted
    THEN << >>
    ELSE ObjectAssign([_id |-> DocumentAt(docs, id)._id], DocumentAt(docs, id).data)

\* findById(collectionName, id)
FindById ==
    /\ ~Observed
    /\ created
    /\ UNCHANGED codecVars
    /\ UNCHANGED << documents, documentCount, inserted, ops, created,
                    autoSaveEnabled, file, registered, encryptionKey >>
    /\ \E id \in Keys(documents) \cup { MissingId } :
          last' = [op |-> "findById", id |-> id,
                   returned |-> findById(documents, id)]

NextQuery ==
    \/ InsertAny
    \/ UpdateAny
    \/ FindAny
    \/ FindById

SpecQuery == Init /\ [][NextQuery]_vars

\* ------------------------------------------------------------------------
\* Properties of the document engine
\* ------------------------------------------------------------------------
\* the single-key predicate map { key: condition } of entry e of a map
EntryMatches(docData, where, e) == matchesQuery(docData, << where[e] >>)

\* find was called with a predicate and without skip and limit
FoundAllOf ==
    /\ last.op = "find"
    /\ DOMAIN last.query \subseteq { "where", "includeDeleted" }
    /\ "where" \in DOMAIN last.query

Visible(doc) ==
    \/ ~doc._meta.deleted
    \/ ("includeDeleted" \in DOMAIN last.query /\ last.query.includeDeleted)

ReturnedIds == { last.result.data[k]._id : k \in 1..Len(last.result.data) }

\* C8: a document matches a predicate map iff every key of the map matches
\* individually, also when logical keys are mixed with field keys and
\* whatever the order of the keys: find returns exactly those documents.
C8_PredicateConjunction ==
    FoundAllOf =>
        ReturnedIds =
            { d._id : d \in { doc \in Range(documents) :
                /\ Visible(doc)
                /\ \A e \in 1..Len(last.query.where) :
                      EntryMatches(doc.data, last.query.where, e) } }

\* C9: update with { $inc: { x: 3 } } (no $set key) leaves a matching
\* document that had x = 1 with x = 4 and its version incremented by 1.
C9_IncModifier ==
    [][ (last'.op = "update" /\ last'.payload = Obj("$inc", [x |-> 3]))
        => \A k \in 1..Len(documents) :
              (documents'[k] # documents[k] /\ Get(documents[k].data, "x") = 1)
                 => /\ Get(documents'[k].data, "x") = 4
                    /\ documents'[k]._meta.version = documents[k]._meta.version + 1
      ]_vars

ExampleDocuments ==
    << [_id |-> "a", data |-> [x |-> 1], _meta |-> [version |-> 1, deleted |-> FALSE]],
       [_id |-> "b", data |-> [x |-> 5], _meta |-> [version |-> 1, deleted |-> FALSE]],
       [_id |-> "c", data |-> [x |-> 10], _meta |-> [version |-> 1, deleted |-> TRUE]] >>
ExampleQuery == [where |-> << Ops("x", "$gte", 5) >>]

\* C10: find returns totalCount = the number of documents that match the
\* predicate and are not soft-deleted (unless includeDeleted), whatever skip
\* and limit are, and hasMore = (skip + returned < totalCount); on a: x=1,
\* b: x=5, c: x=10 soft-deleted, where x >= 5 returns b alone, totalCount 1,
\* hasMore false.
C10_FindAccounting ==
    last.op = "find" =>
        LET q == last.query
            r == last.result
            skip == IF "skip" \in DOMAIN q THEN q.skip ELSE 0
            counted == { k \in 1..Len(documents) :
                           /\ Visible(documents[k])
                           /\ "where" \in DOMAIN q =>
                                 matchesQuery(documents[k].data, q.where) }
        IN  /\ r.totalCount = Cardinality(counted)
            /\ r.hasMore = (skip + Len(r.data) < r.totalCount)
            /\ (documents = ExampleDocuments /\ q = ExampleQuery) =>
                  /\ r.data = << [_id |-> "b", x |-> 5] >>
                  /\ r.totalCount = 1
                  /\ r.hasMore = FALSE

C10_Witness ==
    /\ last.op = "find"
    /\ documents = ExampleDocuments
    /\ last.query = ExampleQuery
    /\ last.result.totalCount = 1
    /\ ~last.result.hasMore

\* ---- delete and deleteById ----
\* the ids of the entries a step changed or removed
TouchedIds == { d._id : d \in Range(documents) \ Range(documents') }

\* the ids find returns with includeDeleted: true
FindableIds(docs) ==
    LET r == find(docs, [includeDeleted |-> TRUE])
    IN  { r.data[k]._id : k \in 1..Len(r.data) }

\* what a successful delete / deleteById did to the collection
DeleteEffect(hard) ==
    /\ last'.result.deletedCount = Cardinality(TouchedIds)
    /\ IF hard
       THEN /\ Keys(documents') = Keys(documents) \ TouchedIds
            /\ Len(documents') = Len(documents) - Cardinality(TouchedIds)
            /\ documentCount' = documentCount - Cardinality(TouchedIds)
       ELSE /\ Keys(documents') = Keys(documents)
            /\ Len(documents') = Len(documents)
            /\ documentCount' = documentCount
            /\ \A id \in TouchedIds :
                  /\ DocumentAt(documents', id)._meta.deleted
                  /\ id \in FindableIds(documents')

\* C11: a soft delete (delete or deleteById with hard = false) sets
\* deleted on the document, keeps its entry and leaves documentCount
\* unchanged, and find with includeDeleted still returns the document; a
\* hard delete removes the entry and takes exactly 1 off documentCount for
\* each removed document.
C11_SoftVersusHard ==
    [][ /\ last'.op = "delete" =>
              \A where \in Wheres, hard \in BOOLEAN, multi \in BOOLEAN :
                 DeleteCall(where, hard, multi) => DeleteEffect(hard)
        /\ (last'.op = "deleteById" /\ last'.result.success) =>
              \A id \in Keys(documents), hard \in BOOLEAN :
                 DeleteByIdCall(id, hard)
                    => (TouchedIds = {id} /\ DeleteEffect(hard))
      ]_vars

C11_Witness ==
    /\ last.op = "delete" /\ ~last.hard
    /\ last.result.deletedCount = 1
    /\ Len(documents) = 2 /\ documentCount = 2
    /\ documents[1]._meta.deleted /\ ~documents[2]._meta.deleted
    /\ FindableIds(documents) = { "a", "b" }

\* C12: after any sequence of createCollection, insert, insertMany, update,
\* updateById, delete and deleteById (soft or hard, multi or not) the
\* collection's documentCount is the number of entries of its documents
\* map, the soft-deleted ones included.
C12_DocumentCount ==
    /\ documentCount = Cardinality(Keys(documents))
    /\ documentCount = Len(documents)

C12_Witness ==
    /\ last.op = "delete" /\ last.hard
    /\ last.result.deletedCount = 2
    /\ Len(documents) = 1 /\ documentCount = 1

\* ---- versions ----
VersionOf(docs, id) == DocumentAt(docs, id)._meta.version

\* every entry a step touched is still there with its version one higher
VersionsBumped ==
    \A id \in TouchedIds :
        /\ id \in Keys(documents')
        /\ VersionOf(documents', id) = VersionOf(documents, id) + 1

\* C13: a document is created with version 1; a successful update or
\* updateById adds exactly 1 to the version of each document it modifies,
\* for a plain payload as for a modifier payload; no step lowers the
\* version of a document, and documents an update does not modify keep
\* theirs.
C13_VersionAccounting ==
    [][ /\ \A id \in Keys(documents') \ Keys(documents) :
              VersionOf(documents', id) = 1
        /\ \A id \in Keys(documents') \cap Keys(documents) :
              VersionOf(documents', id) >= VersionOf(documents, id)
        /\ last'.op = "update" =>
              \A where \in Wheres, payload \in Payloads, multi \in BOOLEAN :
                 UpdateCall(where, payload, multi)
                    => /\ last'.result.modifiedCount = Cardinality(TouchedIds)
                       /\ VersionsBumped
        /\ (last'.op = "updateById" /\ last'.result.success) =>
              \A id \in Keys(documents), payload \in Payloads :
                 UpdateByIdCall(id, payload)
                    => (TouchedIds = {id} /\ VersionsBumped)
      ]_vars

C13_Witness ==
    /\ last.op = "update"
    /\ "$set" \in DOMAIN last.payload
    /\ last.result.modifiedCount = 1
    /\ \E k \in 1..Len(documents) : documents[k]._meta.version = 3

\* ---- the multi flag ----
\* the ids of the non-deleted documents that match where before the step
MatchingIds(where) ==
    { documents[k]._id : k \in { j \in 1..Len(documents) :
          /\ ~documents[j]._meta.deleted
          /\ matchesQuery(documents[j].data, where) } }

\* what update / delete with the flag multi changed, counted in count
MultiEffect(where, multi, count) ==
    /\ TouchedIds \subseteq MatchingIds(where)
    /\ count = Cardinality(TouchedIds)
    /\ IF multi
       THEN TouchedIds = MatchingIds(where)
       ELSE /\ Cardinality(TouchedIds) <= 1
            /\ MatchingIds(where) # {} => Cardinality(TouchedIds) = 1
    /\ \A k \in 1..Len(documents) :
          documents[k]._id \notin MatchingIds(where)
             => documents[k] \in Range(documents')

\* C14: update and delete without multi change at most one document, and
\* exactly one when a non-deleted document matches; with multi they change
\* every non-deleted document that matched before the call; modifiedCount
\* / deletedCount is the number of documents changed, and documents that
\* do not match are left as they were.
C14_MultiFlag ==
    [][ /\ last'.op = "update" =>
              \A where \in Wheres, payload \in Payloads, multi \in BOOLEAN :
                 UpdateCall(where, payload, multi)
                    => MultiEffect(where, multi, last'.result.modifiedCount)
        /\ last'.op = "delete" =>
              \A where \in Wheres, hard \in BOOLEAN, multi \in BOOLEAN :
                 DeleteCall(where, hard, multi)
                    => MultiEffect(where, multi, last'.result.deletedCount)
      ]_vars

C14_Witness ==
    /\ last.op = "update"
    /\ last.result.matchedCount = 2 /\ last.result.modifiedCount = 1
    /\ Len(documents) = 2
    /\ documents[1]._meta.version = 2 /\ documents[2]._meta.version = 1

\* ---- the database file ----
\* the database as the instance holds it in memory
InMemory ==
    [created |-> created, documents |-> documents, documentCount |-> documentCount]

\* C15: after any sequence of calls on an open instance (setAutoSave
\* included), once a call that changed the in-memory database has returned
\* the file has been rewritten in full: decrypting and parsing it yields
\* the current collections and documents.
C15_PersistedAfterMutation ==
    ParseDatabase(file) = InMemory

\* C16: insert with a customId that is already a key of the documents map,
\* of a live or of a soft-deleted document, fails with the duplicate-id
\* error and leaves documents, documentCount and the file as they were.
C16_DuplicateId ==
    [][ last'.op = "insert" =>
          \A d \in InsertData, id \in Keys(documents) :
            InsertCall(d, id)
               => /\ last'.thrown = "DUPLICATE_ID"
                  /\ documents' = documents
                  /\ documentCount' = documentCount
                  /\ file' = file
      ]_vars

C16_Witness ==
    /\ last.op = "insert" /\ last.thrown = "DUPLICATE_ID"
    /\ Len(documents) = 1 /\ documents[1]._meta.deleted
    /\ documentCount = 1
    /\ ParseDatabase(file) = InMemory

\* ---- not found ----
\* the step raised an error to the caller and changed nothing
RaisedUnchanged ==
    /\ last'.op = "throw"
    /\ UNCHANGED << documents, documentCount, created, file >>

\* C17: find, update, delete, updateById, deleteById and insert addressed
\* to a collection that does not exist, and updateById / deleteById
\* addressed to a document id that does not exist in the collection, raise
\* an error to the caller instead of returning a result value, and leave
\* the database and the file unchanged.
C17_NotFoundRaised ==
    [][ /\ (~created /\ (Insert \/ InsertMany \/ Update \/ UpdateById
                          \/ Delete \/ DeleteById \/ Find))
              => RaisedUnchanged
        /\ \A payload \in Payloads :
              (created /\ UpdateByIdCall(MissingId, payload)) => RaisedUnchanged
        /\ \A hard \in BOOLEAN :
              (created /\ DeleteByIdCall(MissingId, hard)) => RaisedUnchanged
      ]_vars

\* ---- hard delete of a soft-deleted document ----
\* the ids of the soft-deleted entries before the step
SoftDeletedIds ==
    { documents[k]._id : k \in { j \in 1..Len(documents) : documents[j]._meta.deleted } }

\* C19: after a document has been soft-deleted, deleteById(id, true), or
\* delete(where, {hard: true}) with a predicate that matches its data,
\* removes its entry and decrements documentCount; until such a hard
\* delete the entry stays in the documents map.
C19_HardDeleteAfterSoft ==
    [][ /\ \A id \in SoftDeletedIds :
              (created /\ DeleteByIdCall(id, TRUE))
                 => /\ id \notin Keys(documents')
                    /\ documentCount' = documentCount - 1
        /\ \A where \in Wheres :
              (created /\ DeleteCall(where, TRUE, TRUE))
                 => \A id \in SoftDeletedIds :
                       matchesQuery(DocumentAt(documents, id).data, where)
                          => id \notin Keys(documents')
        /\ \A id \in SoftDeletedIds :
              (created' /\ id \notin Keys(documents'))
                 => last'.op \in { "delete", "deleteById" }
      ]_vars

\* ------------------------------------------------------------------------
\* Properties of queries and updates
\* ------------------------------------------------------------------------

\* the last call was a find whose predicate map has one key, of this kind
FoundBy(kind) ==
    /\ last.op = "find"
    /\ "where" \in DOMAIN last.query
    /\ Len(last.query.where) = 1
    /\ last.query.where[1].kind = kind

\* the rows find returns for the non-deleted documents d with Expected[d]
RowsOf(selected) ==
    [k \in 1..Len(selected) |->
        ObjectAssign([_id |-> selected[k]._id], selected[k].data)]

\* C21: for a predicate map whose only key is a logical key, $and matches
\* iff every sub-predicate matches (an empty array matches), $or iff at
\* least one does (an empty array does not match), $not iff not all of
\* them match ($not of an empty array does not match).
C21_LogicalOperators ==
    FoundBy("array") =>
        LET key == last.query.where[1].key
            subs == last.query.where[1].val
            every(d) == \A q \in DOMAIN subs : matchesQuery(d.data, subs[q])
            some(d) == \E q \in DOMAIN subs : matchesQuery(d.data, subs[q])
            live == { d \in Range(documents) : ~d._meta.deleted }
            expected == CASE key = "$and" -> { d \in live : every(d) }
                          [] key = "$or" -> { d \in live : some(d) }
                          [] key = "$not" -> { d \in live : ~every(d) }
        IN  /\ last.result.data = RowsOf(Filter(documents, expected))
            /\ subs = << >> =>
                  last.result.totalCount = IF key = "$and" THEN Len(documents) ELSE 0

C21_Witness ==
    /\ FoundBy("array")
    /\ last.query.where[1].key = "$not"
    /\ Len(last.query.where[1].val) = 2
    /\ last.result.totalCount > 0
    /\ last.result.totalCount < Len(documents)
    /\ \E k \in DOMAIN documents :
          "x" \in DOMAIN documents[k].data /\ documents[k].data.x = 5

\* document.data after $set, then $unset, then $inc, field by field
ExpectedData(docData, payload) ==
    LET set == payload["$set"]
        unset == IF "$unset" \in DOMAIN payload THEN DOMAIN payload["$unset"] ELSE {}
        inc == IF "$inc" \in DOMAIN payload THEN payload["$inc"] ELSE << >>
        Base(k) == IF k \in unset THEN 0
                   ELSE IF k \in DOMAIN set THEN set[k]
                   ELSE IF k \in DOMAIN docData THEN docData[k]
                   ELSE 0
    IN  [k \in ((DOMAIN docData \cup DOMAIN set) \ unset) \cup DOMAIN inc |->
            IF k \in DOMAIN inc THEN Base(k) + inc[k]
            ELSE IF k \in DOMAIN set THEN set[k]
            ELSE docData[k]]

\* C22: an update whose payload has a $set key applies $set, then $unset,
\* then $inc: $inc adds to the value the field has after $set and $unset,
\* 0 when it is then missing; fields no modifier names are unchanged, and
\* so are the documents the update does not reach.
C22_ModifierOrder ==
    [][ last'.op = "update" =>
          \A payload \in ModifierPayloads, multi \in BOOLEAN :
             UpdateCall(<< >>, payload, multi) =>
                \A k \in DOMAIN documents :
                   documents'[k].data =
                      IF documents'[k]._meta.version # documents[k]._meta.version
                      THEN ExpectedData(documents[k].data, payload)
                      ELSE documents[k].data
      ]_vars

C22_Witness ==
    /\ last.op = "update"
    /\ DOMAIN last.payload = { "$set", "$unset", "$inc" }
    /\ last.payload["$set"] = [x |-> 1]
    /\ last.result.modifiedCount = 1
    /\ \E k \in DOMAIN documents :
          /\ documents[k]._meta.version = 2
          /\ "x" \in DOMAIN documents[k].data
          /\ documents[k].data.x = 2

\* C23: in the result of a find with a sort specification, the documents
\* that have a value for the first sort key appear in non-decreasing
\* (direction 1) or non-increasing (direction -1) order of that value,
\* also when other documents lack the key.
C23_SortedByFirstKey ==
    (last.op = "find" /\ "sort" \in DOMAIN last.query) =>
        LET key == last.query.sort[1].key
            order == last.query.sort[1].order
            rows == last.result.data
        IN  \A i, j \in DOMAIN rows :
               (i < j /\ key \in DOMAIN rows[i] /\ key \in DOMAIN rows[j]) =>
                  IF order = 1 THEN rows[i][key] <= rows[j][key]
                  ELSE rows[i][key] >= rows[j][key]

\* C24: find, update and delete iterate the documents in the order of
\* their insertion, for every choice of ids: a document just inserted is
\* iterated last and the documents before it keep their order.
C24_InsertionOrder ==
    [][ (last'.op = "insert" /\ last'.thrown = "") =>
           /\ SubSeq(documents', 1, Len(documents)) = documents
           /\ documents'[Len(documents')]._id = last'.result.insertedIds[1]
      ]_vars

\* C28: the _id of the object find and findById return for a document is
\* the key the document is stored under, whatever fields its data has.
C28_ReturnedIdIsStoredId ==
    /\ (last.op = "findById" /\ "_id" \in DOMAIN last.returned) =>
          last.returned._id = last.id
    /\ last.op = "find" =>
          \A k \in DOMAIN last.result.data :
             last.result.data[k]._id \in Keys(documents)

\* C29: a document whose data has no value for the field does not match a
\* condition with $gt, $gte, $lt or $lte on it: find does not return it.
C29_MissingFieldNoMatch ==
    (/\ FoundBy("ops")
     /\ last.query.where[1].val[1].op \in { "$gt", "$gte", "$lt", "$lte" }) =>
        \A k \in DOMAIN last.result.data :
           last.query.where[1].key \in DOMAIN last.result.data[k]

====
